---- MODULE Spec2Model ----
(***************************************************************************)
(* describe() of describe.rs: the Statistic Planner (schema -> aliased     *)
(* aggregation expressions), the single batched collect, and the Result    *)
(* Reshaper (wide one-row frame -> long table of display strings).         *)
(*                                                                         *)
(* A fraction p is held as its number of hundredths (0.25 is 25).  A       *)
(* column of the input frame is held by what the aggregations depend on:   *)
(* its name, its dtype, its number of non-null values and, for a Boolean   *)
(* column, how many of those are true.                                     *)
(***************************************************************************)
EXTENDS Integers, Sequences, FiniteSets, TLC

VARIABLES
    lazy_frame,        \* the input frame: [valid, height, cols]
    percentiles_arg,   \* Option<Vec<f64>>: [some, v]
    pc,                \* position in describe_lazy_impl
    schema,            \* collect_schema(): sequence of [name, dtype]
    percentiles,       \* percentiles.unwrap_or_else(default)
    metrics,           \* statistic row names
    metric_exprs,      \* the flat list of aliased expressions
    df_metrics,        \* the wide result: [height, cols: sequence of [name, val]]
    col_idx,           \* the schema column the reshaping loop is at
    result_columns,    \* the columns of the table being built
    result,            \* Result<DataFrame>: [tag, err]
    collect_calls,     \* how many times select(..).collect() ran
    lookups            \* the keys df_metrics.column(..) was asked for, in order

vars == <<lazy_frame, percentiles_arg, pc, schema, percentiles, metrics,
          metric_exprs, df_metrics, col_idx, result_columns, result,
          collect_calls, lookups>>

-----------------------------------------------------------------------------
(* Bounds of the checked inputs.                                           *)

MaxCols == 2
MaxRows == 2
MaxPct == 2
MaxDataCols == 1

Names == {"a", "0:a", "statistic"}
DataNames == {"a", "b"}
Fractions == {29, 100}

-----------------------------------------------------------------------------
(* polars data types and the predicates the code dispatches on.            *)

\* one dtype of each class the code tells apart
DataTypes ==
    {"Int64", "Date", "Boolean", "String", "List", "Categorical", "Null", "Unknown"}

is_numeric(dtype) == dtype \in {"Int64", "Float64"}

is_temporal(dtype) == dtype \in {"Date"}

is_nested(dtype) == dtype \in {"List"}

skip_minmax_NoCategorical(dtype) ==
    is_nested(dtype) \/ dtype \in {"Null", "Unknown"}

skip_minmax(dtype) ==
    is_nested(dtype) \/ dtype \in {"Categorical", "Null", "Unknown"}

is_numeric_result(dtype) ==
    is_numeric(dtype) \/ is_nested(dtype) \/ dtype \in {"Null", "Boolean"}

ddof == 1

DefaultPercentiles == <<25, 50, 75>>

-----------------------------------------------------------------------------
(* Rust formatting.                                                        *)

\* format!("{p}") of an f64 holding h hundredths: the shortest decimal text.
FmtF64(h) ==
    IF h % 100 = 0 THEN ToString(h \div 100)
    ELSE IF h % 10 = 0
         THEN ToString(h \div 100) \o "." \o ToString((h % 100) \div 10)
         ELSE ToString(h \div 100) \o "." \o ToString((h % 100) \div 10)
                  \o ToString(h % 10)

\* The fractions whose f64 product with 100.0 lies just below the integer.
RoundsBelow == {29, 57, 58}

\* (p * 100.0) as i32
PercentOf(h) == IF h \in RoundsBelow THEN h - 1 ELSE h

PercentLabel(h) == ToString(PercentOf(h)) \o "%"

\* AnyValue: [kind, num]; num is the count of a "uint", 0/1 of a "bool".
NullValue == [kind |-> "null", num |-> 0]

\* format!("{val}")
FmtDisplay(val) ==
    CASE val.kind = "null"  -> "null"
      [] val.kind = "uint"  -> ToString(val.num)
      [] val.kind = "bool"  -> IF val.num = 1 THEN "true" ELSE "false"
      [] val.kind = "float" -> "d.d"
      [] OTHER              -> "value"

FmtPrecision6_Dropped(val) == FmtDisplay(val)

\* format!("{val:.6}")
FmtPrecision6(val) ==
    IF val.kind = "float" THEN "d.dddddd" ELSE FmtDisplay(val)

-----------------------------------------------------------------------------
(* Statistic Planner.                                                      *)

PctLabels(pcts) == [i \in 1..Len(pcts) |-> PercentLabel(pcts[i])]

Metrics_NoMax(pcts) ==
    <<"count", "null_count", "mean", "std", "min">> \o PctLabels(pcts)

Metrics(pcts) ==
    <<"count", "null_count", "mean", "std", "min">> \o PctLabels(pcts) \o <<"max">>

Aliased(op, col, q, alias) == [alias |-> alias, op |-> op, col |-> col, q |-> q]

StatKey(stat, col_name) == stat \o ":" \o col_name

PctKey_NoIndex(p, i, col_name) == FmtF64(p) \o ":" \o col_name

PctKey(p, i, col_name) == FmtF64(p) \o ":" \o ToString(i) \o ":" \o col_name

mean_expr(col_name, dtype) ==
    Aliased(IF is_temporal(dtype) \/ is_numeric(dtype) \/ dtype = "Boolean"
            THEN (IF dtype = "Boolean" THEN "cast_f64_mean" ELSE "mean")
            ELSE "lit_null",
            col_name, 0, StatKey("mean", col_name))

std_expr(col_name, dtype) ==
    Aliased(IF is_numeric(dtype) THEN "std" ELSE "lit_null",
            col_name, 0, StatKey("std", col_name))

min_expr(col_name, dtype) ==
    Aliased(IF skip_minmax(dtype) THEN "lit_null" ELSE "min",
            col_name, 0, StatKey("min", col_name))

max_expr(col_name, dtype) ==
    Aliased(IF skip_minmax(dtype) THEN "lit_null" ELSE "max",
            col_name, 0, StatKey("max", col_name))

\* the enumerate() index i is 0-based
pct_exprs(col_name, dtype, pcts) ==
    [j \in 1..Len(pcts) |->
        Aliased(IF is_numeric(dtype) THEN "quantile" ELSE "lit_null",
                col_name, pcts[j], PctKey(pcts[j], j - 1, col_name))]

ColumnExprs(col_name, dtype, pcts) ==
    << Aliased("count", col_name, 0, StatKey("count", col_name)),
       Aliased("null_count", col_name, 0, StatKey("null_count", col_name)),
       mean_expr(col_name, dtype),
       std_expr(col_name, dtype),
       min_expr(col_name, dtype) >>
    \o pct_exprs(col_name, dtype, pcts)
    \o << max_expr(col_name, dtype) >>

RECURSIVE PlanExprs(_, _)
PlanExprs(sch, pcts) ==
    IF sch = <<>> THEN <<>>
    ELSE ColumnExprs(Head(sch).name, Head(sch).dtype, pcts)
             \o PlanExprs(Tail(sch), pcts)

-----------------------------------------------------------------------------
(* The engine: what select(metric_exprs).collect() yields for one          *)
(* expression on the input frame.                                          *)

FloatValue == [kind |-> "float", num |-> 0]

NativeValue == [kind |-> "native", num |-> 0]

UIntValue(n) == [kind |-> "uint", num |-> n]

BoolValue(b) == [kind |-> "bool", num |-> IF b THEN 1 ELSE 0]

FrameColumn(frame, col_name) ==
    CHOOSE c \in {frame.cols[i] : i \in 1..Len(frame.cols)} : c.name = col_name

Eval(expr, frame) ==
    LET c == FrameColumn(frame, expr.col)
        n == c.nonNull
    IN  CASE expr.op = "count"      -> UIntValue(n)
          [] expr.op = "null_count" -> UIntValue(frame.height - n)
          [] expr.op = "mean" ->
                 IF n = 0 THEN NullValue
                 ELSE IF is_numeric(c.dtype) THEN FloatValue ELSE NativeValue
          [] expr.op = "cast_f64_mean" ->
                 IF n = 0 THEN NullValue ELSE FloatValue
          [] expr.op = "std" ->
                 IF n <= ddof THEN NullValue ELSE FloatValue
          [] expr.op = "min" ->
                 IF n = 0 THEN NullValue
                 ELSE IF c.dtype = "Boolean" THEN BoolValue(c.nTrue = n)
                 ELSE NativeValue
          [] expr.op = "max" ->
                 IF n = 0 THEN NullValue
                 ELSE IF c.dtype = "Boolean" THEN BoolValue(c.nTrue >= 1)
                 ELSE NativeValue
          [] expr.op = "quantile" ->
                 IF n = 0 THEN NullValue ELSE FloatValue
          [] OTHER -> NullValue

\* select() rejects two output columns of the same name.
AliasesUnique(exprs) ==
    Cardinality({exprs[i].alias : i \in 1..Len(exprs)}) = Len(exprs)

WideRow(exprs, frame) ==
    [i \in 1..Len(exprs) |-> [name |-> exprs[i].alias, val |-> Eval(exprs[i], frame)]]

-----------------------------------------------------------------------------
(* Result Reshaper.                                                        *)

MetricName_StdBeforeMean(metric_idx, n_metrics, col_name, pcts) ==
    CASE metric_idx = 0 -> StatKey("count", col_name)
      [] metric_idx = 1 -> StatKey("null_count", col_name)
      [] metric_idx = 2 -> StatKey("std", col_name)
      [] metric_idx = 3 -> StatKey("mean", col_name)
      [] metric_idx = 4 -> StatKey("min", col_name)
      [] metric_idx > 4 /\ metric_idx < n_metrics - 1 ->
             PctKey(pcts[(metric_idx - 5) + 1], metric_idx - 5, col_name)
      [] OTHER -> StatKey("max", col_name)

\* the match on metric_idx (0-based)
MetricName(metric_idx, n_metrics, col_name, pcts) ==
    CASE metric_idx = 0 -> StatKey("count", col_name)
      [] metric_idx = 1 -> StatKey("null_count", col_name)
      [] metric_idx = 2 -> StatKey("mean", col_name)
      [] metric_idx = 3 -> StatKey("std", col_name)
      [] metric_idx = 4 -> StatKey("min", col_name)
      [] metric_idx > 4 /\ metric_idx < n_metrics - 1 ->
             PctKey(pcts[(metric_idx - 5) + 1], metric_idx - 5, col_name)
      [] OTHER -> StatKey("max", col_name)

\* df_metrics.column(&metric_name) is Ok
HasColumn(df, name) == \E i \in 1..Len(df.cols) : df.cols[i].name = name

ColumnValue(df, name) ==
    (CHOOSE c \in {df.cols[i] : i \in 1..Len(df.cols)} : c.name = name).val

FormatValue_NoBoolOverride(val, metric_idx, n_metrics, dtype) ==
    IF val.kind = "null" THEN "null"
    ELSE IF metric_idx <= 1 THEN FmtDisplay(val)
    ELSE IF is_numeric_result(dtype) /\ (metric_idx = 2 \/ metric_idx = 3)
         THEN FmtPrecision6(val)
    ELSE FmtDisplay(val)

FormatValue(val, metric_idx, n_metrics, dtype) ==
    IF val.kind = "null" THEN "null"
    ELSE IF metric_idx <= 1 THEN FmtDisplay(val)
    ELSE IF is_numeric_result(dtype) /\ (metric_idx = 2 \/ metric_idx = 3)
         THEN FmtPrecision6(val)
    ELSE IF dtype = "Boolean" /\ (metric_idx = 4 \/ metric_idx = n_metrics - 1)
         THEN (IF metric_idx = 4 THEN "false" ELSE "true")
    ELSE FmtDisplay(val)

\* if let Ok(val) = column.get(0) { formatted } else { "null" }
Cell(df, name, metric_idx, n_metrics, dtype) ==
    IF df.height >= 1
    THEN FormatValue(ColumnValue(df, name), metric_idx, n_metrics, dtype)
    ELSE "null"

\* DataFrame::new: equal heights and unique names, or an error
FrameError(columns) ==
    IF \E i, j \in 1..Len(columns) : Len(columns[i].values) # Len(columns[j].values)
    THEN "ShapeMismatch"
    ELSE IF \E i, j \in 1..Len(columns) : i # j /\ columns[i].name = columns[j].name
    THEN "Duplicate"
    ELSE ""

-----------------------------------------------------------------------------
(* Input frames.                                                           *)

Column(name, dtype, nonNull, nTrue) ==
    [name |-> name, dtype |-> dtype, nonNull |-> nonNull, nTrue |-> nTrue]

\* columns without nulls (a Null column holds nothing else)
FullColumns(names, h) ==
    {Column(nm, dt,
            IF dt = "Null" THEN 0 ELSE h,
            IF dt = "Boolean" THEN h \div 2 ELSE 0) : nm \in names, dt \in DataTypes}

\* columns with any number of nulls and, for Boolean, any mix of true and false
AnyColumns(names, h) ==
    UNION {
        IF dt = "Null" THEN {Column(nm, dt, 0, 0) : nm \in names}
        ELSE IF dt = "Boolean"
             THEN UNION {{Column(nm, dt, n, t) : nm \in names, t \in 0..n} : n \in 0..h}
             ELSE {Column(nm, dt, n, 0) : nm \in names, n \in 0..h}
        : dt \in DataTypes}

UniqueNamed(S, n) ==
    {s \in [1..n -> S] : \A i, j \in 1..n : i # j => s[i].name # s[j].name}

Frame(h, cols) == [valid |-> TRUE, height |-> h, cols |-> cols]

\* a LazyFrame whose plan does not resolve to a schema
InvalidFrame == [valid |-> FALSE, height |-> 0, cols |-> <<>>]

SchemaFrames ==
    {InvalidFrame} \cup
    UNION {{Frame(MaxRows, s) : s \in UniqueNamed(FullColumns(Names, MaxRows), n)}
           : n \in 0..MaxCols}

DataFrames ==
    {InvalidFrame} \cup
    UNION {UNION {{Frame(h, s) : s \in UniqueNamed(AnyColumns(DataNames, h), n)}
                  : n \in 0..MaxDataCols}
           : h \in 0..MaxRows}

PercentileArgs ==
    {[some |-> FALSE, v |-> <<>>]} \cup
    UNION {{[some |-> TRUE, v |-> s] : s \in [1..n -> Fractions]} : n \in 0..MaxPct}

NoResult == [tag |-> "none", err |-> ""]

Err(e) == [tag |-> "err", err |-> e]

Ok == [tag |-> "ok", err |-> ""]

Start(frames) ==
    /\ lazy_frame \in frames
    /\ percentiles_arg \in PercentileArgs
    /\ pc = "start"
    /\ schema = <<>>
    /\ percentiles = <<>>
    /\ metrics = <<>>
    /\ metric_exprs = <<>>
    /\ df_metrics = [height |-> 0, cols |-> <<>>]
    /\ col_idx = 0
    /\ result_columns = <<>>
    /\ result = NoResult
    /\ collect_calls = 0
    /\ lookups = <<>>

Init == Start(SchemaFrames)

InitData == Start(DataFrames)

-----------------------------------------------------------------------------
(* describe_lazy_impl, step by step.                                       *)

\* let schema = lf_mut.collect_schema()?;   (Ok)
CollectSchema ==
    /\ pc = "start"
    /\ lazy_frame.valid
    /\ schema' = [i \in 1..Len(lazy_frame.cols) |->
                     [name |-> lazy_frame.cols[i].name,
                      dtype |-> lazy_frame.cols[i].dtype]]
    /\ pc' = "schema"
    /\ UNCHANGED <<lazy_frame, percentiles_arg, percentiles, metrics, metric_exprs,
                   df_metrics, col_idx, result_columns, result, collect_calls, lookups>>

\* let schema = lf_mut.collect_schema()?;   (Err)
CollectSchemaErr ==
    /\ pc = "start"
    /\ ~lazy_frame.valid
    /\ result' = Err("SchemaError")
    /\ pc' = "done"
    /\ UNCHANGED <<lazy_frame, percentiles_arg, schema, percentiles, metrics,
                   metric_exprs, df_metrics, col_idx, result_columns,
                   collect_calls, lookups>>

EmptySchema_AfterCollect ==
    /\ pc = "schema"
    /\ schema = <<>>
    /\ collect_calls' = collect_calls + 1
    /\ result' = Err("EmptySchemaError")
    /\ pc' = "done"
    /\ UNCHANGED <<lazy_frame, percentiles_arg, schema, percentiles, metrics,
                   metric_exprs, df_metrics, col_idx, result_columns, lookups>>

\* if schema.is_empty() { return Err(..) }
EmptySchema ==
    /\ pc = "schema"
    /\ schema = <<>>
    /\ result' = Err("EmptySchemaError")
    /\ pc' = "done"
    /\ UNCHANGED <<lazy_frame, percentiles_arg, schema, percentiles, metrics,
                   metric_exprs, df_metrics, col_idx, result_columns,
                   collect_calls, lookups>>

\* default percentiles, metrics, and the expressions of every column
Plan ==
    /\ pc = "schema"
    /\ schema # <<>>
    /\ LET pcts == IF percentiles_arg.some THEN percentiles_arg.v
                   ELSE DefaultPercentiles
       IN  /\ percentiles' = pcts
           /\ metrics' = Metrics(pcts)
           /\ metric_exprs' = PlanExprs(schema, pcts)
    /\ pc' = "collect"
    /\ UNCHANGED <<lazy_frame, percentiles_arg, schema, df_metrics, col_idx,
                   result_columns, result, collect_calls, lookups>>

Collect_PerColumn ==
    /\ pc = "collect"
    /\ AliasesUnique(metric_exprs)
    /\ collect_calls' = collect_calls + Len(schema)
    /\ df_metrics' = [height |-> 1, cols |-> WideRow(metric_exprs, lazy_frame)]
    /\ result_columns' = <<[name |-> "statistic", values |-> metrics]>>
    /\ col_idx' = 1
    /\ pc' = "reshape"
    /\ UNCHANGED <<lazy_frame, percentiles_arg, schema, percentiles, metrics,
                   metric_exprs, result, lookups>>

\* let df_metrics = lazy_frame.clone().select(metric_exprs).collect()?;   (Ok)
\* followed by the "statistic" column
Collect ==
    /\ pc = "collect"
    /\ AliasesUnique(metric_exprs)
    /\ collect_calls' = collect_calls + 1
    /\ df_metrics' = [height |-> 1, cols |-> WideRow(metric_exprs, lazy_frame)]
    /\ result_columns' = <<[name |-> "statistic", values |-> metrics]>>
    /\ col_idx' = 1
    /\ pc' = "reshape"
    /\ UNCHANGED <<lazy_frame, percentiles_arg, schema, percentiles, metrics,
                   metric_exprs, result, lookups>>

\* let df_metrics = lazy_frame.clone().select(metric_exprs).collect()?;   (Err)
CollectErr ==
    /\ pc = "collect"
    /\ collect_calls' = collect_calls + 1
    /\ result' = Err("EngineError")
    /\ pc' = "done"
    /\ UNCHANGED <<lazy_frame, percentiles_arg, schema, percentiles, metrics,
                   metric_exprs, df_metrics, col_idx, result_columns, lookups>>

\* one round of: for (col_name, dtype) in schema.iter() { .. }
ReshapeColumn ==
    /\ pc = "reshape"
    /\ col_idx <= Len(schema)
    /\ LET c == schema[col_idx]
           n_metrics == Len(metrics)
           keys == [i \in 1..n_metrics |->
                       MetricName(i - 1, n_metrics, c.name, percentiles)]
           missing == {i \in 1..n_metrics : ~HasColumn(df_metrics, keys[i])}
       IN  IF missing = {}
           THEN /\ lookups' = lookups \o keys
                /\ result_columns' =
                       Append(result_columns,
                              [name |-> c.name,
                               values |-> [i \in 1..n_metrics |->
                                   Cell(df_metrics, keys[i], i - 1, n_metrics, c.dtype)]])
                /\ col_idx' = col_idx + 1
                /\ UNCHANGED <<pc, result>>
           ELSE LET first == CHOOSE i \in missing : \A j \in missing : i <= j
                IN  /\ lookups' = lookups \o SubSeq(keys, 1, first)
                    /\ result' = Err("ColumnNotFound")
                    /\ pc' = "done"
                    /\ UNCHANGED <<result_columns, col_idx>>
    /\ UNCHANGED <<lazy_frame, percentiles_arg, schema, percentiles, metrics,
                   metric_exprs, df_metrics, collect_calls>>

\* DataFrame::new(result_columns).map_err(Into::into)
NewDataFrame ==
    /\ pc = "reshape"
    /\ col_idx > Len(schema)
    /\ result' = IF FrameError(result_columns) = "" THEN Ok
                 ELSE Err(FrameError(result_columns))
    /\ pc' = "done"
    /\ UNCHANGED <<lazy_frame, percentiles_arg, schema, percentiles, metrics,
                   metric_exprs, df_metrics, col_idx, result_columns,
                   collect_calls, lookups>>

Next ==
    \/ CollectSchema
    \/ CollectSchemaErr
    \/ EmptySchema
    \/ Plan
    \/ Collect
    \/ CollectErr
    \/ ReshapeColumn
    \/ NewDataFrame

Spec == Init /\ [][Next]_vars

SpecData == InitData /\ [][Next]_vars

\* The Reshaper on a wide result it did not plan: one requested column is
\* absent, or the frame holds no row.
CollectPartial ==
    /\ pc = "collect"
    /\ AliasesUnique(metric_exprs)
    /\ collect_calls' = collect_calls + 1
    /\ \E drop \in 0..Len(metric_exprs) :
          LET row == WideRow(metric_exprs, lazy_frame)
          IN  df_metrics' =
                  IF drop = 0 THEN [height |-> 0, cols |-> row]
                  ELSE [height |-> 1,
                        cols |-> SubSeq(row, 1, drop - 1)
                                     \o SubSeq(row, drop + 1, Len(row))]
    /\ result_columns' = <<[name |-> "statistic", values |-> metrics]>>
    /\ col_idx' = 1
    /\ pc' = "reshape"
    /\ UNCHANGED <<lazy_frame, percentiles_arg, schema, percentiles, metrics,
                   metric_exprs, result, lookups>>

NextReshaper ==
    \/ CollectSchema
    \/ CollectSchemaErr
    \/ EmptySchema
    \/ Plan
    \/ Collect
    \/ CollectPartial
    \/ CollectErr
    \/ ReshapeColumn
    \/ NewDataFrame

SpecReshaper == InitData /\ [][NextReshaper]_vars

-----------------------------------------------------------------------------
(* What the claims speak of.                                               *)

RequestedPercentiles ==
    IF percentiles_arg.some THEN percentiles_arg.v ELSE DefaultPercentiles

NumCols == Len(lazy_frame.cols)

\* the cell of schema column c (1-based) in row r (1-based) of the table
CellAt(c, r) == result_columns[c + 1].values[r]

LastRow == 5 + Len(RequestedPercentiles) + 1

ReshapeFinished ==
    /\ schema # <<>>
    /\ Len(result_columns) = 1 + Len(schema)

-----------------------------------------------------------------------------
\* C1: every table describe returns has 5 + |percentiles| + 1 rows and
\* 1 + |schema| columns: "statistic", then the schema's columns in order.
C1_Shape ==
    result.tag = "ok" =>
        /\ Len(result_columns) = 1 + NumCols
        /\ \A k \in 1..Len(result_columns) :
               Len(result_columns[k].values) = 5 + Len(RequestedPercentiles) + 1
        /\ result_columns[1].name = "statistic"
        /\ \A c \in 1..NumCols : result_columns[c + 1].name = lazy_frame.cols[c].name

C1_Witness ==
    /\ result.tag = "ok"
    /\ NumCols = 2
    /\ percentiles_arg.some
    /\ Len(percentiles_arg.v) = 2
    /\ percentiles_arg.v[1] = percentiles_arg.v[2]

\* C2: a frame whose schema has no column makes describe fail with
\* EmptySchemaError, and collect() is never run in that call.
C2_EmptySchema ==
    (lazy_frame.valid /\ lazy_frame.cols = <<>>) =>
        /\ collect_calls = 0
        /\ pc = "done" => result = Err("EmptySchemaError")

C2_Witness ==
    /\ lazy_frame.valid
    /\ lazy_frame.cols = <<>>
    /\ pc = "done"
    /\ result = Err("EmptySchemaError")

\* C3: describe fails only with EmptySchemaError or an engine failure; once
\* the collect has succeeded, the reshaping always yields the table.
C3_OnlyEngineFailures ==
    pc = "done" =>
        \/ result.tag = "ok"
        \/ result.err \in {"EmptySchemaError", "EngineError", "SchemaError"}

\* C4: a key the Reshaper reconstructs that the wide result lacks gives a
\* "null" cell and describe still returns the table.
C4_MissingKeyDegrades ==
    \A c \in 1..Len(schema) : \A r \in 1..Len(metrics) :
        ( /\ pc = "done"
          /\ collect_calls = 1
          /\ result # Err("EngineError")
          /\ ~HasColumn(df_metrics,
                        MetricName(r - 1, Len(metrics), schema[c].name, percentiles)) )
        => /\ result.tag = "ok"
           /\ CellAt(c, r) = "null"

\* C5 as stated: the min cell of a Boolean column is "false" and its max
\* cell is "true", whatever the column holds.
C5_BooleanMinMaxAlways ==
    result.tag = "ok" =>
        \A c \in 1..NumCols :
            lazy_frame.cols[c].dtype = "Boolean" =>
                /\ CellAt(c, 5) = "false"
                /\ CellAt(c, LastRow) = "true"

\* C5 amended: the min cell of a Boolean column is "false" and its max cell
\* is "true" when the column holds a non-null value; both are "null" when
\* it holds none.
C5_BooleanMinMax ==
    result.tag = "ok" =>
        \A c \in 1..NumCols :
            lazy_frame.cols[c].dtype = "Boolean" =>
                IF lazy_frame.cols[c].nonNull >= 1
                THEN CellAt(c, 5) = "false" /\ CellAt(c, LastRow) = "true"
                ELSE CellAt(c, 5) = "null" /\ CellAt(c, LastRow) = "null"

\* a Boolean column of nulls and trues only, whose min cell is still "false"
C5_Witness ==
    /\ result.tag = "ok"
    /\ \E c \in 1..NumCols :
          /\ lazy_frame.cols[c].dtype = "Boolean"
          /\ lazy_frame.cols[c].nonNull >= 1
          /\ lazy_frame.cols[c].nonNull < lazy_frame.height
          /\ lazy_frame.cols[c].nTrue = lazy_frame.cols[c].nonNull
          /\ CellAt(c, 5) = "false"
          /\ CellAt(c, LastRow) = "true"

DispatchOp(j, n, dtype) ==
    CASE j = 1 -> "count"
      [] j = 2 -> "null_count"
      [] j = 3 -> IF dtype \in {"Int64", "Float64", "Date"} THEN "mean"
                  ELSE IF dtype = "Boolean" THEN "cast_f64_mean"
                  ELSE "lit_null"
      [] j = 4 -> IF dtype \in {"Int64", "Float64"} THEN "std" ELSE "lit_null"
      [] j = 5 -> IF dtype \in {"List", "Categorical", "Null", "Unknown"}
                  THEN "lit_null" ELSE "min"
      [] j > 5 /\ j < n ->
                  IF dtype \in {"Int64", "Float64"} THEN "quantile" ELSE "lit_null"
      [] OTHER -> IF dtype \in {"List", "Categorical", "Null", "Unknown"}
                  THEN "lit_null" ELSE "max"

\* C7: per column type the Planner requests a real aggregation exactly for
\* the statistics of the dispatch table, and a null placeholder otherwise.
C7_Dispatch ==
    metric_exprs # <<>> =>
        LET n == 5 + Len(RequestedPercentiles) + 1
        IN  /\ Len(metric_exprs) = n * NumCols
            /\ \A c \in 1..NumCols : \A j \in 1..n :
                   LET e == metric_exprs[(c - 1) * n + j]
                   IN  /\ e.op = DispatchOp(j, n, lazy_frame.cols[c].dtype)
                       /\ e.col = lazy_frame.cols[c].name
                       /\ (j > 5 /\ j < n) => e.q = RequestedPercentiles[j - 5]

C7_Witness ==
    /\ pc = "collect"
    /\ Len(percentiles) >= 1
    /\ \E c, d \in 1..NumCols :
          /\ lazy_frame.cols[c].dtype = "Date"
          /\ lazy_frame.cols[d].dtype = "Categorical"

\* the key of row r (1-based) for a column, as the key scheme gives it
RowKey(r, n, col_name) ==
    CASE r = 1 -> "count:" \o col_name
      [] r = 2 -> "null_count:" \o col_name
      [] r = 3 -> "mean:" \o col_name
      [] r = 4 -> "std:" \o col_name
      [] r = 5 -> "min:" \o col_name
      [] r > 5 /\ r < n ->
             FmtF64(RequestedPercentiles[r - 5]) \o ":" \o ToString(r - 6)
                 \o ":" \o col_name
      [] OTHER -> "max:" \o col_name

\* C8: the rows are count, null_count, mean, std, min, one row per requested
\* percentile in request order (duplicates kept), max, whatever the types.
C8_RowOrder ==
    result.tag = "ok" =>
        /\ result_columns[1].values =
               <<"count", "null_count", "mean", "std", "min">>
               \o [i \in 1..Len(RequestedPercentiles) |->
                       PercentLabel(RequestedPercentiles[i])]
               \o <<"max">>
        /\ \A c \in 1..NumCols : \A r \in 1..LastRow :
               lookups[(c - 1) * LastRow + r] = RowKey(r, LastRow, lazy_frame.cols[c].name)

C8_Witness ==
    /\ result.tag = "ok"
    /\ NumCols = 2
    /\ lazy_frame.cols[1].dtype = "String"
    /\ lazy_frame.cols[2].dtype = "Int64"
    /\ Len(RequestedPercentiles) = 2
    /\ result_columns[1].values[6] = result_columns[1].values[7]

\* C9 as stated: unless describe fails with EmptySchemaError, collect() runs
\* exactly once in the call.
C9_CollectOnceUnlessEmpty ==
    (pc = "done" /\ result # Err("EmptySchemaError")) => collect_calls = 1

\* C9 amended: collect() runs exactly once in every call whose schema
\* resolves to at least one column, and not at all in a call that fails
\* with EmptySchemaError or whose schema does not resolve.
C9_CollectOnce ==
    /\ collect_calls <= 1
    /\ pc = "done" =>
           collect_calls =
               IF result.err \in {"EmptySchemaError", "SchemaError"} THEN 0 ELSE 1

C9_Witness ==
    /\ pc = "done"
    /\ result.tag = "ok"
    /\ collect_calls = 1
    /\ NumCols = 2
    /\ Len(percentiles) = 3

\* C10: the keys the Planner emits are pairwise distinct, and the Reshaper
\* looks up each of them exactly once and no other key.
C10_Keys ==
    LET emitted == {metric_exprs[i].alias : i \in 1..Len(metric_exprs)}
        looked == {lookups[i] : i \in 1..Len(lookups)}
    IN  /\ Cardinality(emitted) = Len(metric_exprs)
        /\ ReshapeFinished =>
               /\ looked = emitted
               /\ Cardinality(looked) = Len(lookups)

C10_Witness ==
    /\ ReshapeFinished
    /\ NumCols = 2
    /\ lazy_frame.cols[1].name = "a"
    /\ lazy_frame.cols[2].name = "0:a"
    /\ percentiles_arg.some
    /\ percentiles = <<100, 100>>
    /\ Len(lookups) = Len(metric_exprs)

====
